---- MODULE Spec2Model ----
(***************************************************************************)
(* Model of the logging facility of petanque-team-server (src/Log.py):     *)
(* the Log dispatcher with its three destinations (console, log file,      *)
(* session buffer), the log-file life cycle and the shutdown hook, the     *)
(* message interpolation s_printf with the wrappers I / W / E / D / R, the *)
(* module's configuration and singleton, and the request handlers that log *)
(* through it (src/handlers.py, src/server.py).                            *)
(*                                                                         *)
(* Text is modelled by TLA+ strings, built as the code builds them.        *)
(* The file system is a directory flag plus a map from path to content,    *)
(* the content being the sequence of the texts written to the file; a      *)
(* Python file object is a record with its path, its unflushed texts and   *)
(* how often close() succeeded on it.  I/O failures (OSError from the      *)
(* console, mkdir/open, write/flush) are inputs chosen by the environment. *)
(***************************************************************************)
EXTENDS Integers, Sequences, FiniteSets, TLC

(***************************************************************************)
(* Bounds of the model.                                                    *)
(***************************************************************************)
MaxEmits == 2
MaxClock == 1
NThreads == 2
MaxLabelLen == 75
MaxTemplateLen == 2
MaxArgs == 2
MaxObjs == 2
MaxGets == 2

(***************************************************************************)
(* Configuration constants, src/Log.py lines 10-32.                        *)
(***************************************************************************)
OUTPUT_DIRECTORY == "logs/"
EST_FUNCTION_LENGTH == 70
SHORTER_FUNCTION_FILL_CHARACTER == " "
CONTENT_SPACE == 10
CONTENT_SPACE_CHARACTER == " "
SPACE_BETWEEN_CONTENT_SPACE_AND_CONTENT == TRUE

(***************************************************************************)
(* LogLevel and LogAction, src/Log.py lines 36-53.  A LogAction flag value *)
(* is the set of its bits.                                                 *)
(***************************************************************************)
LogLevel == {"INFO", "WARNING", "ERROR", "DEBUG", "RAW"}
Dest == {"SAVE", "PRINT", "SESSION"}
LogAction == SUBSET Dest
NONE == {}
ALL == {"SAVE", "PRINT", "SESSION"}
ACTION_FORCE_HIGHEST == ALL

None == 0          \* Log._log_file_handler = None
NonePath == "None" \* Log._log_file_path = None

(***************************************************************************)
(* Inputs of the model.                                                    *)
(***************************************************************************)
Messages == <<"a", "b", "c">>
MessageFor(k) == Messages[((k - 1) % Len(Messages)) + 1]
FuncNames == {"handle_request"}
OpenOutcomes == {"ok", "mkdir_fail", "open_fail", "banner_fail"}
Threads == 1..NThreads
ThreadLevels == {"INFO", "RAW"}
ThreadActions == {ALL, {"SAVE"}, {"PRINT", "SESSION"}}

\* c * n of Python: n copies of c (none when n <= 0), built by halving.
RECURSIVE Rep(_, _)
Rep(c, n) ==
    IF n <= 0 THEN ""
    ELSE LET half == Rep(c, n \div 2)
         IN IF n % 2 = 0 THEN half \o half ELSE half \o half \o c

RECURSIVE Join(_)
Join(seq) == IF seq = <<>> THEN "" ELSE Head(seq) \o Join(Tail(seq))

Digits3(n) == IF n < 10 THEN "00" \o ToString(n)
              ELSE IF n < 100 THEN "0" \o ToString(n) ELSE ToString(n)

(***************************************************************************)
(* Log._get_timestamp.  The clock counts milliseconds; the model's runs    *)
(* stay within one second, so only the millisecond field varies.           *)
(***************************************************************************)
get_timestamp(now, simple_separators) ==
    IF simple_separators
    THEN "20250101_000000_" \o Digits3(now % 1000)
    ELSE "2025-01-01 00:00:00." \o Digits3(now % 1000)

level_indicator_map(level) ==
    CASE level = "INFO"    -> "I "
      [] level = "WARNING" -> "W ###"
      [] level = "ERROR"   -> "E ### ###"
      [] level = "DEBUG"   -> "D "
      [] level = "RAW"     -> "R "
      [] OTHER             -> "? "

(***************************************************************************)
(* Log._build_prefix.                                                      *)
(***************************************************************************)
build_prefix_drops_long_label(level, func_name) ==
    LET level_indicator_str == level_indicator_map(level)
        fill0 == EST_FUNCTION_LENGTH - Len(func_name) - Len(level_indicator_str)
        fill_needed == IF fill0 < 0 THEN 0 ELSE fill0
        combined_header_part ==
            IF Len(func_name) >= EST_FUNCTION_LENGTH
            THEN level_indicator_str
            ELSE level_indicator_str
                 \o Rep(SHORTER_FUNCTION_FILL_CHARACTER, fill_needed)
                 \o func_name
        sp == IF SPACE_BETWEEN_CONTENT_SPACE_AND_CONTENT THEN " " ELSE ""
    IN combined_header_part
       \o sp \o Rep(CONTENT_SPACE_CHARACTER, CONTENT_SPACE) \o sp

build_prefix_min_fill(level, func_name) ==
    LET level_indicator_str == level_indicator_map(level)
        fill0 == EST_FUNCTION_LENGTH - Len(func_name) - Len(level_indicator_str)
        fill_needed == IF fill0 < 1 THEN 1 ELSE fill0
        combined_header_part ==
            IF Len(func_name) >= EST_FUNCTION_LENGTH
            THEN level_indicator_str \o func_name
            ELSE level_indicator_str
                 \o Rep(SHORTER_FUNCTION_FILL_CHARACTER, fill_needed)
                 \o func_name
        sp == IF SPACE_BETWEEN_CONTENT_SPACE_AND_CONTENT THEN " " ELSE ""
    IN combined_header_part
       \o sp \o Rep(CONTENT_SPACE_CHARACTER, CONTENT_SPACE) \o sp

build_prefix(level, func_name) ==
    LET level_indicator_str == level_indicator_map(level)
        fill0 == EST_FUNCTION_LENGTH - Len(func_name) - Len(level_indicator_str)
        fill_needed == IF fill0 < 0 THEN 0 ELSE fill0
        combined_header_part ==
            IF Len(func_name) >= EST_FUNCTION_LENGTH
            THEN level_indicator_str \o func_name
            ELSE level_indicator_str
                 \o Rep(SHORTER_FUNCTION_FILL_CHARACTER, fill_needed)
                 \o func_name
        sp == IF SPACE_BETWEEN_CONTENT_SPACE_AND_CONTENT THEN " " ELSE ""
    IN combined_header_part
       \o sp \o Rep(CONTENT_SPACE_CHARACTER, CONTENT_SPACE) \o sp

(***************************************************************************)
(* Log._build_start_prefix: the banner of a newly opened file.             *)
(***************************************************************************)
build_start_prefix(now) ==
    LET start_text == "--- [APPLICATION STARTED] ---"
        approx_total_width ==
            Len("I ") + EST_FUNCTION_LENGTH
            + (IF SPACE_BETWEEN_CONTENT_SPACE_AND_CONTENT THEN 1 ELSE 0)
            + CONTENT_SPACE
            + (IF SPACE_BETWEEN_CONTENT_SPACE_AND_CONTENT THEN 1 ELSE 0)
        current_ts == get_timestamp(now, FALSE)
        pad0 == (approx_total_width - Len(start_text) - Len(current_ts) - 2) \div 2
        padding_len == IF pad0 < 0 THEN 0 ELSE pad0
        padding_str == Rep("-", padding_len)
    IN "[" \o current_ts \o "] " \o padding_str \o start_text \o padding_str

(***************************************************************************)
(* The state of the program.                                               *)
(***************************************************************************)
VARIABLES
    action_force_highest,   \* self._action_force_highest, the ceiling mask
    log_file_handler,       \* Log._log_file_handler: None or a file object
    log_file_path,          \* Log._log_file_path: None or a path
    current_session_data,   \* Log._current_session_data
    stdout,                 \* what has been written to standard output
    stderr,                 \* the diagnostics written to standard error
    dir_exists,             \* whether OUTPUT_DIRECTORY exists
    disk,                   \* path -> the texts written to the file at that path
    file_objs,              \* every file object open() has returned
    clock,                  \* datetime.now(), in milliseconds
    raised,                 \* whether the last call raised to its caller
    calls,                  \* history: the _log calls made: inputs, and whether it raised
    pre,                    \* history: the state before the last operation
    last_op,                \* history: the last operation, "emit" or "cleanup"
    pc,                     \* per thread: the statement of _log it is at
    tl,                     \* per thread: the local variables of its _log call
    module_force_highest,   \* the module global ACTION_FORCE_HIGHEST
    log_objs,               \* the Log objects built: each one's _action_force_highest
    log_instance,           \* Log._instance: None or a Log object
    returned,               \* history: the objects get_instance has returned
    probe,                  \* a function under test: its inputs and its result
    debug,                  \* constants.DEBUG
    data_json,              \* the content of data.json
    request,                \* history: the request handled, data.json before it
    response                \* what the request handler returned or raised

ext == <<module_force_highest, log_objs, log_instance, returned, probe, debug,
         data_json, request, response>>

vars == <<action_force_highest, log_file_handler, log_file_path,
          current_session_data, stdout, stderr, dir_exists, disk, file_objs,
          clock, raised, calls, pre, last_op, pc, tl, ext>>

(***************************************************************************)
(* The mutable state as one value, so that the methods of Log are          *)
(* operators from state to state.                                          *)
(***************************************************************************)
State ==
    [handler |-> log_file_handler, path |-> log_file_path,
     session |-> current_session_data, out |-> stdout, err |-> stderr,
     dir |-> dir_exists, disk |-> disk, objs |-> file_objs, raised |-> FALSE]

Install(st) ==
    /\ log_file_handler' = st.handler
    /\ log_file_path' = st.path
    /\ current_session_data' = st.session
    /\ stdout' = st.out
    /\ stderr' = st.err
    /\ dir_exists' = st.dir
    /\ disk' = st.disk
    /\ file_objs' = st.objs
    /\ raised' = st.raised

FileContent(d, p) == IF p \in DOMAIN d THEN d[p] ELSE <<>>

(***************************************************************************)
(* The statements of Log._ensure_file_open's try block.                    *)
(* log_file_name: lines 186-187, the path made of the open-time timestamp. *)
(* open_file: line 189, open(path, "a") creates the file when it is absent *)
(* (an existing file keeps its content) and the new file object is stored  *)
(* in Log._log_file_handler.                                               *)
(* write_flush: a write() and flush() that succeed on file object h: the   *)
(* buffered text and the new text reach the file.                          *)
(***************************************************************************)
log_file_name(now) == OUTPUT_DIRECTORY \o get_timestamp(now, TRUE) \o ".log"

open_file_truncating(st, p) ==
    [st EXCEPT !.dir = TRUE, !.path = p,
               !.disk = (p :> <<>>) @@ @,
               !.objs = Append(@, [path |-> p, buf |-> <<>>, closed |-> 0]),
               !.handler = Len(st.objs) + 1]

open_file(st, p) ==
    [st EXCEPT !.dir = TRUE, !.path = p,
               !.disk = (p :> FileContent(st.disk, p)) @@ @,
               !.objs = Append(@, [path |-> p, buf |-> <<>>, closed |-> 0]),
               !.handler = Len(st.objs) + 1]

write_flush(st, h, text) ==
    LET o == st.objs[h]
    IN [st EXCEPT !.disk = (o.path :> (FileContent(st.disk, o.path) \o o.buf \o <<text>>)) @@ @,
                  !.objs[h].buf = <<>>]

(***************************************************************************)
(* Log._ensure_file_open.  openRes is the outcome of the try block when it *)
(* is entered: mkdir fails, open fails, the banner's write/flush fails     *)
(* (after open has created the file), or all of it succeeds.  Every        *)
(* failure is an IOError: it is reported on stderr and the handler is      *)
(* reset to None; the file object of a failed banner is dropped unclosed.  *)
(***************************************************************************)
ensure_file_open(st, now, openRes) ==
    IF st.handler # None THEN st
    ELSE
      LET p == log_file_name(now)
          banner == build_start_prefix(now) \o "\n"
          diag == "Error creating/opening log file"
          opened == open_file(st, p)
      IN CASE openRes = "mkdir_fail" ->
                [st EXCEPT !.err = Append(@, diag), !.handler = None]
           [] openRes = "open_fail" ->
                [st EXCEPT !.dir = TRUE, !.path = p,
                           !.err = Append(@, diag), !.handler = None]
           [] openRes = "banner_fail" ->
                [opened EXCEPT !.objs[opened.handler].buf = <<banner>>,
                               !.err = Append(@, diag), !.handler = None]
           [] OTHER -> write_flush(opened, opened.handler, banner)

(***************************************************************************)
(* Log._print_log.  conOk = FALSE: print raises (OSError), nothing caught. *)
(***************************************************************************)
print_log_always_newline(st, content, new_line, conOk) ==
    IF conOk
    THEN [st EXCEPT !.out = @ \o content \o "\n"]
    ELSE [st EXCEPT !.raised = TRUE]

print_log(st, content, new_line, conOk) ==
    IF conOk
    THEN [st EXCEPT !.out = @ \o content \o (IF new_line THEN "\n" ELSE "")]
    ELSE [st EXCEPT !.raised = TRUE]

(***************************************************************************)
(* Log._save_log.  flushOk = FALSE: write/flush raises IOError, which is   *)
(* caught; the text stays in the file object's buffer.                     *)
(***************************************************************************)
save_log_no_break(st, full_line_content, now, openRes, flushOk) ==
    LET s1 == ensure_file_open(st, now, openRes)
        h == s1.handler
    IN IF h = None THEN s1
       ELSE LET o == s1.objs[h]
                data == Append(o.buf, full_line_content)
            IN IF flushOk
               THEN write_flush(s1, h, full_line_content)
               ELSE [s1 EXCEPT !.objs[h].buf = data,
                               !.err = Append(@, "Error writing to log file")]

save_log(st, full_line_content, now, openRes, flushOk) ==
    LET s1 == ensure_file_open(st, now, openRes)
        h == s1.handler
    IN IF h = None THEN s1
       ELSE LET o == s1.objs[h]
                data == Append(o.buf, full_line_content \o "\n")
            IN IF flushOk
               THEN write_flush(s1, h, full_line_content \o "\n")
               ELSE [s1 EXCEPT !.objs[h].buf = data,
                               !.err = Append(@, "Error writing to log file")]

(***************************************************************************)
(* Log._add_to_session.                                                    *)
(***************************************************************************)
add_to_session_bare(st, content, new_line) ==
    [st EXCEPT !.session = Append(@, content)]

add_to_session(st, content, new_line) ==
    [st EXCEPT !.session = Append(@, content \o (IF new_line THEN "\n" ELSE ""))]

(***************************************************************************)
(* The effective mask of Log._log: (action | NONE) & ceiling.              *)
(***************************************************************************)
effective_action_no_ceiling(action, highest) == action \cup NONE

effective_action(action, highest) == (action \cup NONE) \cap highest

(***************************************************************************)
(* The tests `LogAction.X in effective_action` of Log._log.                *)
(***************************************************************************)
wants_any(dest, effective) == effective # {}

wants_session_always(dest, effective) == dest = "SESSION" \/ dest \in effective

wants(dest, effective) == dest \in effective

(***************************************************************************)
(* Log._log.  An exception raised by a destination is not caught here: it  *)
(* ends the call (raised = TRUE) and the statements after it do not run.   *)
(* The clock is read once per call.                                        *)
(***************************************************************************)
log(st, highest, level, func_name, message, action, now, conOk, openRes, flushOk) ==
    LET effective == effective_action(action, highest)
        timestamp_str == "[" \o get_timestamp(now, FALSE) \o "] "
    IN IF level = "RAW" THEN
         LET raw_file_prefix ==
                 build_prefix("RAW", IF func_name # "" THEN func_name ELSE "raw_log")
             full_raw_message_for_file ==
                 timestamp_str \o raw_file_prefix \o "\n<<START RAW>>\n"
                 \o message \o "\n<<END RAW>>"
             s1 == IF wants("PRINT", effective)
                   THEN print_log(st, message, FALSE, conOk) ELSE st
             s2 == IF ~s1.raised /\ wants("SAVE", effective)
                   THEN save_log(s1, full_raw_message_for_file, now, openRes, flushOk)
                   ELSE s1
             s3 == IF ~s2.raised /\ wants("SESSION", effective)
                   THEN add_to_session(s2, message, FALSE) ELSE s2
         IN s3
       ELSE
         LET line_prefix == build_prefix(level, func_name)
             message_for_print_session == line_prefix \o message
             message_for_file == timestamp_str \o line_prefix \o message
             s1 == IF wants("PRINT", effective)
                   THEN print_log(st, message_for_print_session, TRUE, conOk) ELSE st
             s2 == IF ~s1.raised /\ wants("SAVE", effective)
                   THEN save_log(s1, message_for_file, now, openRes, flushOk)
                   ELSE s1
             s3 == IF ~s2.raised /\ wants("SESSION", effective)
                   THEN add_to_session(s2, message_for_print_session, TRUE) ELSE s2
         IN s3

(***************************************************************************)
(* The values handed to s_printf.  A Python str is the sequence of the     *)
(* pieces the % operator sees in it: literal text, the conversions %d and  *)
(* %s, the escape %%, a conversion with a character % does not know (%z)   *)
(* and a lone % that ends the string.  An int is its value; any other      *)
(* object (a dict, a Request) is what str() makes of it.                   *)
(***************************************************************************)
Lit(text) == [k |-> "lit", s |-> text]
Conv(c) == [k |-> c, s |-> c]
StrVal(toks) == [t |-> "str", toks |-> toks, v |-> 0]
IntVal(v) == [t |-> "int", toks |-> <<>>, v |-> v]
ObjVal(repr) == [t |-> "obj", toks |-> <<Lit(repr)>>, v |-> 0]

RECURSIVE TokText(_)
TokText(toks) == IF toks = <<>> THEN "" ELSE Head(toks).s \o TokText(Tail(toks))

str(x) == IF x.t = "int" THEN ToString(x.v) ELSE TokText(x.toks)

RECURSIVE JoinWith(_, _)
JoinWith(sep, seq) ==
    IF seq = <<>> THEN ""
    ELSE IF Len(seq) = 1 THEN Head(seq)
    ELSE Head(seq) \o sep \o JoinWith(sep, Tail(seq))

Returns(text) == [exc |-> "none", text |-> text]
Raises(exc) == [exc |-> exc, text |-> ""]
Then(text, r) == IF r.exc = "none" THEN [r EXCEPT !.text = text \o @] ELSE r

(***************************************************************************)
(* format % args of Python for a str and a tuple, piece by piece from the  *)
(* left: a lone % is ValueError (incomplete format); a conversion takes    *)
(* the next argument, TypeError when none is left; an unknown conversion   *)
(* character is ValueError; %d of a non-number is TypeError; arguments     *)
(* left over at the end are TypeError.                                     *)
(***************************************************************************)
RECURSIVE percent_format(_, _)
percent_format(toks, args) ==
    IF toks = <<>>
    THEN (IF args # <<>> THEN Raises("TypeError") ELSE Returns(""))
    ELSE LET tok == Head(toks)
             rest == Tail(toks)
         IN IF tok.k = "lit" THEN Then(tok.s, percent_format(rest, args))
            ELSE IF tok.k = "%%" THEN Then("%", percent_format(rest, args))
            ELSE IF tok.k = "%" THEN Raises("ValueError")
            ELSE IF args = <<>> THEN Raises("TypeError")
            ELSE IF tok.k = "%s"
                 THEN Then(str(Head(args)), percent_format(rest, Tail(args)))
            ELSE IF tok.k = "%d"
                 THEN (IF Head(args).t = "int"
                       THEN Then(ToString(Head(args).v), percent_format(rest, Tail(args)))
                       ELSE Raises("TypeError"))
            ELSE Raises("ValueError")

(***************************************************************************)
(* s_printf.  Only TypeError is caught around the % operator.              *)
(***************************************************************************)
S_PRINTF_WARNING == " [S_PRINTF_WARNING: Non-string format string used with arguments]"
S_PRINTF_ERROR == " [S_PRINTF_ERROR: Formatting failed, fallback to concatenation]"

all_items_as_strings(message_or_format_string, args) ==
    <<str(message_or_format_string)>> \o [i \in 1..Len(args) |-> str(args[i])]

s_printf(message_or_format_string, args) ==
    IF args = <<>> THEN Returns(str(message_or_format_string))
    ELSE IF message_or_format_string.t # "str"
    THEN Returns(JoinWith(" ", all_items_as_strings(message_or_format_string, args))
                 \o S_PRINTF_WARNING)
    ELSE LET r == percent_format(message_or_format_string.toks, args)
         IN IF r.exc = "TypeError"
            THEN Returns(JoinWith(" ", all_items_as_strings(message_or_format_string, args))
                         \o S_PRINTF_ERROR)
            ELSE r

(***************************************************************************)
(* The wrappers I, W, E, D, R: s_printf, then the method of _log_instance  *)
(* for the severity.  An exception of s_printf leaves the wrapper before   *)
(* anything is logged.                                                     *)
(***************************************************************************)
wrapper(st, highest, level, func_name, message_format, args, action, now, conOk, openRes, flushOk) ==
    LET final_message == s_printf(message_format, args)
    IN IF final_message.exc # "none"
       THEN [st EXCEPT !.raised = TRUE]
       ELSE log(st, highest, level, func_name, final_message.text, action, now,
                conOk, openRes, flushOk)

(***************************************************************************)
(* Log._cleanup, the atexit hook.  flush() of an empty buffer does no I/O  *)
(* and cannot fail; when flush() raises, close() is skipped.               *)
(***************************************************************************)
cleanup(st, flushOk) ==
    IF st.handler # None
    THEN LET h == st.handler
             o == st.objs[h]
         IN IF flushOk \/ o.buf = <<>>
            THEN [st EXCEPT !.disk = (o.path :> (FileContent(st.disk, o.path) \o o.buf)) @@ @,
                            !.objs[h].buf = <<>>,
                            !.objs[h].closed = @ + 1,
                            !.handler = None]
            ELSE [st EXCEPT !.err = Append(@, "Error during log cleanup"),
                            !.handler = None]
    ELSE st

(***************************************************************************)
(* Log.get_current_session.                                                *)
(***************************************************************************)
get_current_session == Join(current_session_data)

NoLocals == [level |-> "", effective |-> {}, con |-> "", new_line |-> FALSE,
             file_line |-> "", sess |-> ""]

NotApplied == [exc |-> "not applied", text |-> ""]
NoProbe == [fn |-> "none", out |-> NotApplied]
NoData == "no data.json"
NoRequest == [handler |-> "none"]
NoResponse == [kind |-> "none"]

(***************************************************************************)
(* The state after the module is loaded: the configuration is set, the     *)
(* singleton is constructed (Log.__init__ copies ACTION_FORCE_HIGHEST, any *)
(* LogAction value the configuration may give it), no file is open and the *)
(* session is empty.  InitLog is the logging module's part of it; no       *)
(* request has been handled.                                               *)
(***************************************************************************)
InitLog ==
    /\ action_force_highest \in LogAction
    /\ log_file_handler = None
    /\ log_file_path = NonePath
    /\ current_session_data = <<>>
    /\ stdout = ""
    /\ stderr = <<>>
    /\ dir_exists = FALSE
    /\ disk = <<>>
    /\ file_objs = <<>>
    /\ clock = 0
    /\ raised = FALSE
    /\ calls = <<>>
    /\ pre = [handler |-> None, path |-> NonePath, session |-> <<>>, out |-> "",
              err |-> <<>>, dir |-> FALSE, disk |-> <<>>, objs |-> <<>>,
              raised |-> FALSE]
    /\ last_op = "init"
    /\ pc = [t \in Threads |-> "idle"]
    /\ tl = [t \in Threads |-> NoLocals]
    /\ module_force_highest = action_force_highest
    /\ log_objs = <<action_force_highest>>
    /\ log_instance = 1
    /\ returned = <<>>

InitServer ==
    /\ request = NoRequest
    /\ response = NoResponse

Init ==
    /\ InitLog
    /\ InitServer
    /\ probe = NoProbe
    /\ debug = FALSE
    /\ data_json = NoData

(***************************************************************************)
(* One call of Log.info / warning / error / debug / raw, i.e. of _log.     *)
(***************************************************************************)
Emit ==
    /\ Len(calls) < MaxEmits
    /\ \E level \in LogLevel, func_name \in FuncNames, action \in LogAction :
         LET message == MessageFor(Len(calls) + 1)
             eff == effective_action(action, action_force_highest)
             opening == "SAVE" \in eff /\ log_file_handler = None
         IN \E conOk \in (IF "PRINT" \in eff THEN BOOLEAN ELSE {TRUE}),
               openRes \in (IF opening THEN OpenOutcomes ELSE {"ok"}),
               flushOk \in (IF "SAVE" \in eff THEN BOOLEAN ELSE {TRUE}) :
              LET st == log(State, action_force_highest, level, func_name,
                            message, action, clock, conOk, openRes, flushOk)
              IN /\ Install(st)
                 /\ calls' = Append(calls,
                        [level |-> level, func_name |-> func_name,
                         message |-> message, action |-> action,
                         raised |-> st.raised])
    /\ pre' = State
    /\ last_op' = "emit"
    /\ UNCHANGED <<action_force_highest, clock, pc, tl, ext>>

(***************************************************************************)
(* One run of the shutdown hook.                                           *)
(***************************************************************************)
Cleanup ==
    /\ \E flushOk \in (IF log_file_handler # None THEN BOOLEAN ELSE {TRUE}) :
         Install(cleanup(State, flushOk))
    /\ pre' = State
    /\ last_op' = "cleanup"
    /\ UNCHANGED <<action_force_highest, clock, calls, pc, tl, ext>>

(***************************************************************************)
(* Time passes.                                                            *)
(***************************************************************************)
Tick ==
    /\ clock < MaxClock
    /\ clock' = clock + 1
    /\ UNCHANGED <<action_force_highest, log_file_handler, log_file_path,
                   current_session_data, stdout, stderr, dir_exists, disk,
                   file_objs, raised, calls, pre, last_op, pc, tl, ext>>

Next == Emit \/ Cleanup \/ Tick

Spec == Init /\ [][Next]_vars

(***************************************************************************)
(* Several threads calling _log (Flask serves each request on its own      *)
(* thread).  Log takes no lock, so a thread can be preempted between any   *)
(* two statements that touch shared state; each action below is one such   *)
(* statement of thread t.  No I/O failure and no shutdown hook here: one   *)
(* thread alone opens at most one file.                                    *)
(***************************************************************************)
Goto(t, label) == pc' = [pc EXCEPT ![t] = label]

Shared(st) ==
    Install(st) /\ UNCHANGED <<action_force_highest, clock, calls, pre, last_op, ext>>

NoShared ==
    UNCHANGED <<action_force_highest, log_file_handler, log_file_path,
                current_session_data, stdout, stderr, dir_exists, disk,
                file_objs, clock, raised, calls, pre, last_op, ext>>

\* _log, lines 220-244: the effective mask, the timestamp and the texts.
T_Call(t) ==
    /\ pc[t] = "idle"
    /\ \E level \in ThreadLevels, func_name \in FuncNames, action \in ThreadActions :
         LET message == MessageFor(t)
             timestamp_str == "[" \o get_timestamp(clock, FALSE) \o "] "
             prefix == build_prefix(level, IF level = "RAW" /\ func_name = ""
                                           THEN "raw_log" ELSE func_name)
         IN tl' = [tl EXCEPT ![t] =
                [level |-> level,
                 effective |-> effective_action(action, action_force_highest),
                 con |-> IF level = "RAW" THEN message ELSE prefix \o message,
                 new_line |-> level # "RAW",
                 file_line |-> IF level = "RAW"
                               THEN timestamp_str \o prefix \o "\n<<START RAW>>\n"
                                    \o message \o "\n<<END RAW>>"
                               ELSE timestamp_str \o prefix \o message,
                 sess |-> IF level = "RAW" THEN message ELSE prefix \o message \o "\n"]]
    /\ Goto(t, "print")
    /\ NoShared

\* _print_log, line 200: print() writes the content, then the end string.
T_Print(t) ==
    /\ pc[t] = "print"
    /\ IF wants("PRINT", tl[t].effective)
       THEN /\ Shared([State EXCEPT !.out = @ \o tl[t].con])
            /\ Goto(t, "print_end")
       ELSE /\ NoShared
            /\ Goto(t, "save")
    /\ UNCHANGED tl

T_PrintEnd(t) ==
    /\ pc[t] = "print_end"
    /\ Shared([State EXCEPT !.out = @ \o (IF tl[t].new_line THEN "\n" ELSE "")])
    /\ Goto(t, "save")
    /\ UNCHANGED tl

\* _ensure_file_open, line 183: the test of Log._log_file_handler.
T_CheckOpen(t) ==
    /\ pc[t] = "save"
    /\ Goto(t, IF ~wants("SAVE", tl[t].effective) THEN "session"
               ELSE IF log_file_handler = None THEN "open" ELSE "write")
    /\ NoShared
    /\ UNCHANGED tl

\* _ensure_file_open, lines 185-189: mkdir, the path, open and the store.
T_Open(t) ==
    /\ pc[t] = "open"
    /\ Shared(open_file(State, log_file_name(clock)))
    /\ Goto(t, "banner")
    /\ UNCHANGED tl

\* _ensure_file_open, lines 190-192: the banner, through Log._log_file_handler.
T_Banner(t) ==
    /\ pc[t] = "banner"
    /\ Shared(write_flush(State, log_file_handler, build_start_prefix(clock) \o "\n"))
    /\ Goto(t, "write")
    /\ UNCHANGED tl

\* _save_log, lines 205-208: the line, through Log._log_file_handler.
T_Write(t) ==
    /\ pc[t] = "write"
    /\ Shared(write_flush(State, log_file_handler, tl[t].file_line \o "\n"))
    /\ Goto(t, "session")
    /\ UNCHANGED tl

\* _add_to_session, line 215.
T_Session(t) ==
    /\ pc[t] = "session"
    /\ IF wants("SESSION", tl[t].effective)
       THEN Shared([State EXCEPT !.session = Append(@, tl[t].sess)])
       ELSE NoShared
    /\ Goto(t, "done")
    /\ UNCHANGED tl

InitThreads == Init /\ action_force_highest = ACTION_FORCE_HIGHEST

NextThreads ==
    \/ \E t \in Threads :
          \/ T_Call(t)
          \/ T_Print(t)
          \/ T_PrintEnd(t)
          \/ T_CheckOpen(t)
          \/ T_Open(t)
          \/ T_Banner(t)
          \/ T_Write(t)
          \/ T_Session(t)
    \/ Tick

SpecThreads == InitThreads /\ [][NextThreads]_vars

(***************************************************************************)
(* Log._build_prefix on its own: a severity and an origin label of every   *)
(* length up to MaxLabelLen are drawn, then the prefix is built.           *)
(***************************************************************************)
Labels == {Rep("f", n) : n \in 0..MaxLabelLen} \cup FuncNames

PrefixInputs ==
    [fn : {"build_prefix"}, level : LogLevel, func_name : Labels, out : {NotApplied}]

InitPrefix ==
    /\ InitLog
    /\ InitServer
    /\ action_force_highest = ACTION_FORCE_HIGHEST
    /\ probe \in PrefixInputs
    /\ debug = FALSE
    /\ data_json = NoData

BuildPrefix ==
    /\ probe.fn = "build_prefix"
    /\ probe.out = NotApplied
    /\ probe' = [probe EXCEPT !.out =
                    [exc |-> "none", text |-> build_prefix(probe.level, probe.func_name)]]
    /\ UNCHANGED <<action_force_highest, log_file_handler, log_file_path,
                   current_session_data, stdout, stderr, dir_exists, disk,
                   file_objs, clock, raised, calls, pre, last_op, pc, tl,
                   module_force_highest, log_objs, log_instance, returned,
                   debug, data_json, request, response>>

NextPrefix == BuildPrefix

SpecPrefix == InitPrefix /\ [][NextPrefix]_vars

(***************************************************************************)
(* One call of a wrapper I / W / E / D / R with a drawn template (or other *)
(* first argument) and drawn extra arguments, every destination working.   *)
(***************************************************************************)
Pieces == {Lit("a"), Conv("%d"), Conv("%s"), Conv("%%"), Conv("%z")}
SeqsUpTo(S, n) == UNION {[1..k -> S] : k \in 0..n}
Templates ==
    SeqsUpTo(Pieces, MaxTemplateLen)
    \cup {Append(t, Conv("%")) : t \in SeqsUpTo(Pieces, MaxTemplateLen)}
ArgValues == {IntVal(7), StrVal(<<Lit("success")>>)}
FirstValues ==
    {StrVal(t) : t \in Templates} \cup {IntVal(7), ObjVal("{'status': 'failed'}")}

PrintfInputs ==
    [fn : {"s_printf"}, level : LogLevel, func_name : FuncNames,
     message_format : FirstValues, args : SeqsUpTo(ArgValues, MaxArgs),
     out : {NotApplied}]

InitPrintf ==
    /\ InitLog
    /\ InitServer
    /\ action_force_highest = ACTION_FORCE_HIGHEST
    /\ probe \in PrintfInputs
    /\ debug = FALSE
    /\ data_json = NoData

Wrapper ==
    /\ probe.fn = "s_printf"
    /\ probe.out = NotApplied
    /\ LET st == wrapper(State, action_force_highest, probe.level, probe.func_name,
                         probe.message_format, probe.args, ALL, clock,
                         TRUE, "ok", TRUE)
       IN /\ Install(st)
          /\ calls' = IF st.raised THEN calls
                      ELSE Append(calls,
                             [level |-> probe.level, func_name |-> probe.func_name,
                              message |-> s_printf(probe.message_format, probe.args).text,
                              action |-> ALL, raised |-> FALSE])
    /\ probe' = [probe EXCEPT !.out = s_printf(probe.message_format, probe.args)]
    /\ pre' = State
    /\ last_op' = "wrapper"
    /\ UNCHANGED <<action_force_highest, clock, pc, tl, module_force_highest,
                   log_objs, log_instance, returned, debug, data_json, request,
                   response>>

NextPrintf == Wrapper

SpecPrintf == InitPrintf /\ [][NextPrintf]_vars

(***************************************************************************)
(* The life of the module after it is loaded: the program that imported it *)
(* assigns the module global ACTION_FORCE_HIGHEST before its first log     *)
(* call, builds Log objects, asks for the singleton, and logs through a    *)
(* Log object (the wrappers and Log.get_instance() give object 1, Log()    *)
(* gives a new one).  Every destination works.                             *)
(***************************************************************************)
LifeUnchanged ==
    UNCHANGED <<action_force_highest, log_file_handler, log_file_path,
                current_session_data, stdout, stderr, dir_exists, disk,
                file_objs, clock, raised, calls, pre, pc, tl, probe, debug,
                data_json, request, response>>

\* ACTION_FORCE_HIGHEST = v, assigned from outside before the first log call.
SetCeiling ==
    /\ calls = <<>>
    /\ \E v \in LogAction : module_force_highest' = v
    /\ last_op' = "configure"
    /\ UNCHANGED <<log_objs, log_instance, returned>>
    /\ LifeUnchanged

\* Log(): __init__ copies the module global and registers the exit hook.
Construct ==
    /\ Len(log_objs) < MaxObjs
    /\ log_objs' = Append(log_objs, module_force_highest)
    /\ last_op' = "construct"
    /\ UNCHANGED <<module_force_highest, log_instance, returned>>
    /\ LifeUnchanged

\* Log.get_instance().
GetInstance ==
    /\ Len(returned) < MaxGets
    /\ IF log_instance = None
       THEN /\ log_objs' = Append(log_objs, module_force_highest)
            /\ log_instance' = Len(log_objs) + 1
       ELSE UNCHANGED <<log_objs, log_instance>>
    /\ returned' = Append(returned, log_instance')
    /\ last_op' = "get_instance"
    /\ UNCHANGED module_force_highest
    /\ LifeUnchanged

\* self.info / warning / error / debug / raw of a Log object.
EmitVia ==
    /\ Len(calls) < MaxEmits
    /\ \E self \in 1..Len(log_objs), level \in ThreadLevels, func_name \in FuncNames,
          action \in LogAction :
         LET message == MessageFor(Len(calls) + 1)
             st == log(State, log_objs[self], level, func_name, message, action,
                       clock, TRUE, "ok", TRUE)
         IN /\ Install(st)
            /\ calls' = Append(calls,
                   [level |-> level, func_name |-> func_name, message |-> message,
                    action |-> action, raised |-> st.raised, via |-> self])
    /\ pre' = State
    /\ last_op' = "emit"
    /\ UNCHANGED <<action_force_highest, clock, pc, tl, ext>>

InitLife == Init /\ action_force_highest = ACTION_FORCE_HIGHEST

NextLife == SetCeiling \/ Construct \/ GetInstance \/ EmitVia

SpecLife == InitLife /\ [][NextLife]_vars

(***************************************************************************)
(* The request handlers of src/handlers.py and handle_request of           *)
(* src/server.py.  A JSON value is null or a string; a JSON object is a    *)
(* function from the keys it has to their values, so json_data[key] of an  *)
(* absent key is the KeyError of Python.  The handlers log through the     *)
(* wrappers I and W, every destination working; data.json is written       *)
(* whole by save_new_data.  A handler gives back the wrapper calls it      *)
(* made, in order, the content of data.json and its return value or the    *)
(* exception it raised.                                                    *)
(***************************************************************************)
JNull == [t |-> "null", s |-> ""]
JStr(text) == [t |-> "str", s |-> text]

example_credentials ==
    [login |-> JStr("example login"),
     password_hash |-> JStr("ee7ed3c8af7ac48bd459b901a1f8fd3e8f4d1701f6a6cd588ca70849a4619d2b3c79ab60c4ee0538141d48fc4f3934e6e30668c994b2aeba352c7259831d5a50")]

jsonify(status, code) == [kind |-> "response", exc |-> "", status |-> status, code |-> code]
Uncaught(exc) == [kind |-> "raise", exc |-> exc, status |-> "", code |-> None]

Result(logs, data, resp) == [logs |-> logs, data |-> data, resp |-> resp]

\* The call I(message_format, *args) or W(message_format, *args) made in
\* function func_name, which _get_caller_func_name finds on the stack.
I(func_name, message_format, args) ==
    [level |-> "INFO", func_name |-> func_name, message_format |-> message_format,
     args |-> args]

W(func_name, message_format, args) ==
    [level |-> "WARNING", func_name |-> func_name, message_format |-> message_format,
     args |-> args]

Text(text) == StrVal(<<Lit(text)>>)

\* authenticate_credentials: None (false) when DEBUG is off.
authenticate_credentials_login_only(login, password_hash) ==
    /\ debug
    /\ login = example_credentials.login

authenticate_credentials(login, password_hash) ==
    /\ debug
    /\ login = example_credentials.login
    /\ password_hash = example_credentials.password_hash

\* json.dump(json_data, f, ...) into data.json, opened with "w".
json_dump(v) == IF v.t = "null" THEN "null" ELSE "\"" \o v.s \o "\""
save_new_data(json_data) == json_dump(json_data)

handle_authenication_request(data, json_data) ==
    LET fn == "handle_authenication_request"
    IN IF ~({"login", "password_hash"} \subseteq DOMAIN json_data)
       THEN Result(<<>>, data, Uncaught("KeyError"))
       ELSE LET login == json_data["login"]
                password_hash == json_data["password_hash"]
            IN IF login = JNull \/ password_hash = JNull
               THEN Result(<<W(fn, Text("Invalid JSON - missing credentials"), <<>>)>>,
                           data, jsonify("error", 400))
               ELSE LET authenticated == authenticate_credentials(login, password_hash)
                        status == IF authenticated THEN "success" ELSE "failed"
                    IN Result(<<I(fn, StrVal(<<Lit("Credentials authentication: "),
                                               Conv("%d")>>), <<Text(status)>>),
                                I(fn, StrVal(<<Lit("response: "), Conv("%s")>>),
                                  <<ObjVal("{'status': '" \o status \o "'}")>>)>>,
                              data, jsonify(status, 200))

handle_add_data_request(data, json_data) ==
    LET fn == "handle_add_data_request"
    IN IF ~({"login", "password_hash"} \subseteq DOMAIN json_data)
       THEN Result(<<>>, data, Uncaught("KeyError"))
       ELSE LET login == json_data["login"]
                password_hash == json_data["password_hash"]
            IN IF login = JNull \/ password_hash = JNull
               THEN Result(<<W(fn, Text("Invalid JSON - missing credentials"), <<>>)>>,
                           data, jsonify("error", 400))
               ELSE LET authenticated == authenticate_credentials(login, password_hash)
                        status == IF authenticated THEN "success" ELSE "failed"
                        log1 == I(fn, StrVal(<<Lit("Credentials authentication: "),
                                               Conv("%d")>>), <<Text(status)>>)
                        log2 == I(fn, StrVal(<<Lit("response: "), Conv("%s")>>),
                                  <<ObjVal("{'status': '" \o status \o "'}")>>)
                    IN IF ~authenticated
                       THEN Result(<<log1, log2>>, data, jsonify(status, 200))
                       ELSE IF "data" \notin DOMAIN json_data
                       THEN Result(<<log1>>, data, Uncaught("KeyError"))
                       ELSE IF json_data["data"] = JNull
                       THEN Result(<<log1, W(fn, Text("Invalid JSON - missing data"), <<>>)>>,
                                   data, jsonify("error", 400))
                       ELSE Result(<<log1, log2>>, save_new_data(json_data["data"]),
                                   jsonify(status, 200))

\* handle_request: req is what Flask hands over: whether the two headers
\* match, and the body: get_json() raises, gives None, or gives an object.
handle_request(data, req) ==
    LET fn == "handle_request"
        first == <<I(fn, ObjVal("<Request 'http://localhost:5000/api' [POST]>"), <<>>),
                   I(fn, ObjVal("<EnvironHeaders>"), <<>>),
                   I(fn, ObjVal("b'...'"), <<>>),
                   I(fn, ObjVal("127.0.0.1"), <<>>),
                   I(fn, ObjVal("{'REQUEST_METHOD': 'POST'}"), <<>>)>>
        json_data == req.json_data
        handled == IF json_data["action"] = JStr("auth")
                   THEN handle_authenication_request(data, json_data)
                   ELSE handle_add_data_request(data, json_data)
    IN IF ~req.user_agent \/ ~req.content_type
       THEN Result(Append(first, W(fn, Text("Unauthorized client"), <<>>)), data,
                   jsonify("error", 403))
       ELSE IF req.body = "raise"
       THEN Result(Append(first, W(fn, Text("Invalid JSON, details: "),
                                   <<Text("400 Bad Request")>>)),
                   data, jsonify("error", 400))
       ELSE IF req.body = "none"
       THEN Result(Append(first, W(fn, Text("Invalid JSON"), <<>>)), data,
                   jsonify("error", 400))
       ELSE IF "action" \notin DOMAIN json_data
       THEN Result(first, data, Uncaught("KeyError"))
       ELSE IF json_data["action"] \in {JStr("auth"), JStr("add_data")}
       THEN Result(first \o handled.logs, handled.data, handled.resp)
       ELSE Result(Append(first, W(fn, Text("Invalid action"), <<>>)), data,
                   jsonify("error", 422))

\* The wrapper calls of a handler, run in order on the logging state; an
\* exception of a wrapper ends the handler.
RECURSIVE run_logs(_, _, _)
run_logs(st, logs, now) ==
    IF logs = <<>> \/ st.raised THEN st
    ELSE CHOOSE r \in
            {run_logs(s1, Tail(logs), now) :
                s1 \in {wrapper(st, action_force_highest, Head(logs).level,
                                Head(logs).func_name, Head(logs).message_format,
                                Head(logs).args, ALL, now, TRUE, "ok", TRUE)}} : TRUE

Keys == {"action", "login", "password_hash", "data"}
FullPayloads ==
    [action : {JStr("auth"), JStr("add_data"), JStr("remove")},
     login : {JNull, example_credentials.login, JStr("someone")},
     password_hash : {JNull, example_credentials.password_hash, JStr("0000")},
     data : {JNull, JStr("new data")}]
Payloads == {[k \in K |-> full[k]] : K \in SUBSET Keys, full \in FullPayloads}
Requests ==
    [user_agent : BOOLEAN, content_type : BOOLEAN, body : {"raise", "none"},
     json_data : {<<>>}]
    \cup [user_agent : BOOLEAN, content_type : BOOLEAN, body : {"object"},
          json_data : Payloads]

InitHandlers ==
    /\ InitLog
    /\ InitServer
    /\ action_force_highest = ACTION_FORCE_HIGHEST
    /\ probe = NoProbe
    /\ debug \in BOOLEAN
    /\ data_json \in {NoData, json_dump(JStr("old data"))}

HandleRequest ==
    /\ request = NoRequest
    /\ \E req \in Requests :
         LET r == handle_request(data_json, req)
         IN \E st \in {run_logs(State, r.logs, clock)} :
              LET resp == IF st.raised THEN Uncaught("ValueError") ELSE r.resp
              IN /\ Install([st EXCEPT !.raised = (resp.kind = "raise")])
                 /\ data_json' = r.data
                 /\ response' = resp
            /\ request' = [handler |-> "handle_request", req |-> req,
                           data_before |-> data_json]
    /\ pre' = State
    /\ last_op' = "request"
    /\ UNCHANGED <<action_force_highest, clock, calls, pc, tl, module_force_highest,
                   log_objs, log_instance, returned, probe, debug>>

NextHandlers == HandleRequest

SpecHandlers == InitHandlers /\ [][NextHandlers]_vars

TypeOK ==
    /\ action_force_highest \in LogAction
    /\ log_file_handler \in 0..Len(file_objs)
    /\ clock \in 0..MaxClock
    /\ Len(calls) <= MaxEmits

(***************************************************************************)
(* Observations used by the properties.                                    *)
(***************************************************************************)
LastCall == calls[Len(calls)]
LastEff == LastCall.action \cap action_force_highest

ConsoleTouched == stdout # pre.out
FileTouched ==
    \/ log_file_handler # pre.handler
    \/ log_file_path # pre.path
    \/ dir_exists # pre.dir
    \/ disk # pre.disk
    \/ file_objs # pre.objs
    \/ stderr # pre.err
SessionTouched == current_session_data # pre.session
Affected ==
    {d \in Dest : \/ d = "PRINT" /\ ConsoleTouched
                  \/ d = "SAVE" /\ FileTouched
                  \/ d = "SESSION" /\ SessionTouched}

OpenDiag == "Error creating/opening log file"
Count(seq, x) == Cardinality({i \in 1..Len(seq) : seq[i] = x})

StructuredLine(c) == build_prefix(c.level, c.func_name) \o c.message

RECURSIVE ExpectedSession(_, _)
ExpectedSession(cs, ceiling) ==
    IF cs = <<>> THEN ""
    ELSE (IF "SESSION" \in Head(cs).action \cap ceiling
          THEN StructuredLine(Head(cs)) \o "\n" ELSE "")
         \o ExpectedSession(Tail(cs), ceiling)

RECURSIVE RawText(_, _, _)
RawText(cs, ceiling, dest) ==
    IF cs = <<>> THEN ""
    ELSE (IF dest \in Head(cs).action \cap ceiling THEN Head(cs).message ELSE "")
         \o RawText(Tail(cs), ceiling, dest)

(***************************************************************************)
(* C1: the destinations an emit affects (console written, file opened or   *)
(* written, session appended) are among routingMask /\ ceilingMask; with a *)
(* SESSION-only ceiling an emit requesting ALL changes the session only.   *)
(***************************************************************************)
C1_AffectedWithinEffective ==
    last_op = "emit" => Affected \subseteq (LastCall.action \cap action_force_highest)

C1_Witness ==
    /\ last_op = "emit"
    /\ action_force_highest = {"SESSION"}
    /\ LastCall.action = ALL
    /\ Affected = {"SESSION"}

(***************************************************************************)
(* C2: within one emit a failure of one destination does not keep the      *)
(* other enabled destinations from receiving the line, and nothing is      *)
(* raised to the caller.                                                   *)
(***************************************************************************)
C2_FailureIsolated ==
    last_op = "emit" =>
        /\ ~raised
        /\ "SESSION" \in LastEff => Len(current_session_data) = Len(pre.session) + 1
        /\ ("SAVE" \in LastEff /\ stderr = pre.err) => disk # pre.disk

(***************************************************************************)
(* C3: when several threads make their first emit with SAVE in the         *)
(* effective mask, exactly one log file is opened under every interleaving.*)
(***************************************************************************)
C3_OneFileOpened ==
    /\ Len(file_objs) <= 1
    /\ (\A t \in Threads : pc[t] = "done" /\ "SAVE" \in tl[t].effective) =>
           Len(file_objs) = 1

(***************************************************************************)
(* C4: after one failed open the file destination stays unavailable: no    *)
(* later emit opens a file, and the open failure is reported once.         *)
(***************************************************************************)
C4_OpenFailureSticky ==
    /\ Count(stderr, OpenDiag) <= 1
    /\ (last_op = "emit" /\ Count(pre.err, OpenDiag) >= 1) =>
           /\ file_objs = pre.objs
           /\ disk = pre.disk
           /\ log_file_handler = None

(***************************************************************************)
(* C5: over a sequence of emit calls at most one physical log file is ever *)
(* created.                                                                *)
(***************************************************************************)
C5_AtMostOneFile == Cardinality(DOMAIN disk) <= 1

(***************************************************************************)
(* C6: the shutdown hook flushes and closes an open log file exactly once, *)
(* however often it runs, and does nothing when no file is open.           *)
(***************************************************************************)
C6_CleanupClosesOnce ==
    /\ \A i \in 1..Len(file_objs) : file_objs[i].closed <= 1
    /\ last_op = "cleanup" =>
           IF pre.handler # None
           THEN /\ file_objs[pre.handler].closed = 1
                /\ file_objs[pre.handler].buf = <<>>
                /\ log_file_handler = None
           ELSE State = pre

(***************************************************************************)
(* C7: after non-RAW emits only, the session snapshot is the concatenation *)
(* in call order of prefix + message + one line break of every call whose  *)
(* effective mask contains SESSION.                                        *)
(***************************************************************************)
C7_SessionSnapshot ==
    (\A i \in 1..Len(calls) : calls[i].level # "RAW") =>
        get_current_session = ExpectedSession(calls, action_force_highest)

(***************************************************************************)
(* C8: a non-RAW emit whose routing mask is SESSION alone prints nothing   *)
(* and neither opens nor writes the file; only the session buffer changes, *)
(* by the structured line.                                                 *)
(***************************************************************************)
C8_SessionOnlyFrame ==
    (last_op = "emit" /\ LastCall.level # "RAW" /\ LastCall.action = {"SESSION"}) =>
        /\ ~ConsoleTouched
        /\ ~FileTouched
        /\ ~raised
        /\ current_session_data =
             IF "SESSION" \in action_force_highest
             THEN Append(pre.session, StructuredLine(LastCall) \o "\n")
             ELSE pre.session

C8_Witness ==
    /\ last_op = "emit"
    /\ LastCall.level \notin {"RAW", "INFO"}
    /\ LastCall.action = {"SESSION"}
    /\ SessionTouched
    /\ file_objs = <<>>
    /\ stdout = ""

(***************************************************************************)
(* C9: an emit whose effective mask is empty changes nothing (console,     *)
(* file, whether a file is open, session) and raises nothing.              *)
(***************************************************************************)
C9_EmptyMaskNoOp ==
    (last_op = "emit" /\ LastCall.action \cap action_force_highest = {}) =>
        State = pre /\ ~raised

C9_Witness ==
    /\ last_op = "emit"
    /\ Len(calls) = 2
    /\ LastCall.action = {"SAVE", "PRINT"}
    /\ action_force_highest = {"SESSION"}
    /\ current_session_data # <<>>

(***************************************************************************)
(* C10: a RAW emit gives the console the bare message, no prefix and no    *)
(* line break, and appends the bare message to the session; consecutive    *)
(* RAW emits concatenate in the console and in the session snapshot.       *)
(***************************************************************************)
C10_RawBareMessage ==
    /\ (last_op = "emit" /\ LastCall.level = "RAW") =>
          /\ stdout = IF "PRINT" \in LastEff /\ ~raised
                      THEN pre.out \o LastCall.message ELSE pre.out
          /\ current_session_data =
                IF "SESSION" \in LastEff /\ ~raised
                THEN Append(pre.session, LastCall.message) ELSE pre.session
    /\ (\A i \in 1..Len(calls) : calls[i].level = "RAW" /\ ~calls[i].raised) =>
          /\ stdout = RawText(calls, action_force_highest, "PRINT")
          /\ get_current_session = RawText(calls, action_force_highest, "SESSION")

C10_Witness ==
    /\ last_op = "emit"
    /\ Len(calls) = 2
    /\ \A i \in 1..2 : calls[i].level = "RAW" /\ ~calls[i].raised
                       /\ {"PRINT", "SESSION"} \subseteq calls[i].action
    /\ stdout = "ab"
    /\ get_current_session = "ab"

(***************************************************************************)
(* The texts a call writes to the log file at time n, and the texts the    *)
(* last operation added to the file the handler now points at.             *)
(***************************************************************************)
FileStamp(n) == "[" \o get_timestamp(n, FALSE) \o "] "
FileLine(c, n) == FileStamp(n) \o StructuredLine(c) \o "\n"
Banner(n) == build_start_prefix(n) \o "\n"

CurrentFile == FileContent(disk, log_file_path)
NewTexts ==
    SubSeq(CurrentFile, Len(FileContent(pre.disk, log_file_path)) + 1, Len(CurrentFile))

RECURSIVE FileTexts(_, _)
FileTexts(cs, lo) ==
    IF cs = <<>> THEN {<<>>}
    ELSE UNION {{<<FileLine(Head(cs), n)>> \o r : r \in FileTexts(Tail(cs), n)} :
                n \in lo..clock}

ExpectedFiles ==
    IF calls = <<>> THEN {<<>>}
    ELSE UNION {{<<Banner(n), FileLine(Head(calls), n)>> \o r :
                    r \in FileTexts(Tail(calls), n)} : n \in 0..clock}

(***************************************************************************)
(* C11: a non-RAW emit gives the console and the session the same          *)
(* structured line (prefix + message, one line break), and gives the file  *)
(* that line behind a bracketed full timestamp; after emits with mask ALL  *)
(* and no destination failure the console, the session and the file (its   *)
(* banner and the timestamps apart) hold the same lines in the same order. *)
(***************************************************************************)
C11_SameLineEverywhere ==
    /\ (last_op = "emit" /\ LastCall.level # "RAW" /\ ~raised) =>
          /\ "PRINT" \in LastEff =>
                stdout = pre.out \o StructuredLine(LastCall) \o "\n"
          /\ "SESSION" \in LastEff =>
                current_session_data =
                    Append(pre.session, StructuredLine(LastCall) \o "\n")
          /\ ("SAVE" \in LastEff /\ stderr = pre.err) =>
                \E n \in 0..clock :
                    NewTexts = IF pre.handler # None
                               THEN pre.objs[pre.handler].buf \o <<FileLine(LastCall, n)>>
                               ELSE <<Banner(n), FileLine(LastCall, n)>>
    /\ ( /\ action_force_highest = ALL
         /\ stderr = <<>>
         /\ \A i \in 1..Len(calls) :
               calls[i].level # "RAW" /\ calls[i].action = ALL /\ ~calls[i].raised
         /\ \A i \in 1..Len(file_objs) : file_objs[i].closed = 0 ) =>
          /\ stdout = ExpectedSession(calls, ALL)
          /\ get_current_session = stdout
          /\ CurrentFile \in ExpectedFiles

C11_Witness ==
    /\ last_op = "emit"
    /\ Len(calls) = 2
    /\ action_force_highest = ALL
    /\ stderr = <<>>
    /\ \A i \in 1..2 : calls[i].level \notin {"RAW"} /\ calls[i].action = ALL
                       /\ ~calls[i].raised
    /\ Len(file_objs) = 1 /\ file_objs[1].closed = 0
    /\ Len(CurrentFile) = 3
    /\ Len(current_session_data) = 2

(***************************************************************************)
(* C12 as stated: the prefix is targetWidth + separator-block width long   *)
(* when the origin label is shorter than targetWidth, and                  *)
(* len(indicator) + len(label) + separator-block width long otherwise.     *)
(***************************************************************************)
SeparatorBlockWidth ==
    CONTENT_SPACE + (IF SPACE_BETWEEN_CONTENT_SPACE_AND_CONTENT THEN 2 ELSE 0)

PrefixBuilt == probe.fn = "build_prefix" /\ probe.out # NotApplied
IndicatorAndLabel == Len(level_indicator_map(probe.level)) + Len(probe.func_name)

C12_PrefixLength ==
    PrefixBuilt =>
        Len(probe.out.text) =
            IF Len(probe.func_name) < EST_FUNCTION_LENGTH
            THEN EST_FUNCTION_LENGTH + SeparatorBlockWidth
            ELSE IndicatorAndLabel + SeparatorBlockWidth

(***************************************************************************)
(* C12 amended: when the label is shorter than targetWidth the prefix is   *)
(* max(targetWidth, len(indicator) + len(label)) + separator-block width   *)
(* long (the fill is clamped to zero, nothing is cut); otherwise it is     *)
(* len(indicator) + len(label) + separator-block width long.               *)
(***************************************************************************)
C12_PrefixLengthClamped ==
    PrefixBuilt =>
        Len(probe.out.text) =
            IF Len(probe.func_name) < EST_FUNCTION_LENGTH
            THEN (IF IndicatorAndLabel > EST_FUNCTION_LENGTH
                  THEN IndicatorAndLabel ELSE EST_FUNCTION_LENGTH)
                 + SeparatorBlockWidth
            ELSE IndicatorAndLabel + SeparatorBlockWidth

C12_Witness ==
    /\ PrefixBuilt
    /\ probe.level = "ERROR"
    /\ Len(probe.func_name) < EST_FUNCTION_LENGTH
    /\ IndicatorAndLabel > EST_FUNCTION_LENGTH
    /\ Len(probe.out.text) = IndicatorAndLabel + SeparatorBlockWidth

(***************************************************************************)
(* C13: s_printf never raises, whatever the template and the arguments:    *)
(* every failed substitution becomes the concatenation fallback, and the   *)
(* wrapper emits a log line.                                               *)
(***************************************************************************)
Interpolated == probe.fn = "s_printf" /\ probe.out # NotApplied

C13_InterpolationNeverRaises ==
    Interpolated =>
        /\ probe.out.exc = "none"
        /\ ~raised
        /\ Len(calls) = 1
        /\ Len(current_session_data) = Len(pre.session) + 1
        /\ FileTouched

(***************************************************************************)
(* C19: s_printf by case: without extra arguments the string form of the   *)
(* message; with extra arguments and a string template whose substitution  *)
(* succeeds the substituted string; when the substitution fails or the     *)
(* template is no string, the string forms of the template and of every    *)
(* argument, in order, joined and followed by a fallback marker.           *)
(***************************************************************************)
C19_ResultByCase ==
    Interpolated =>
        LET m == probe.message_format
            args == probe.args
            fallback == JoinWith(" ", all_items_as_strings(m, args))
        IN IF args = <<>> THEN probe.out = Returns(str(m))
           ELSE IF m.t = "str" /\ percent_format(m.toks, args).exc = "none"
           THEN probe.out = percent_format(m.toks, args)
           ELSE /\ probe.out.exc = "none"
                /\ probe.out.text \in {fallback \o S_PRINTF_WARNING,
                                        fallback \o S_PRINTF_ERROR}

(***************************************************************************)
(* C14: every log file that holds anything starts with the start banner,   *)
(* and holds the banner once: no record is written to a file before its    *)
(* banner, and no second banner follows.                                   *)
(***************************************************************************)
IsBanner(text) == \E n \in 0..MaxClock : text = Banner(n)

C14_BannerFirstOnce ==
    \A p \in DOMAIN disk :
        disk[p] # <<>> =>
            /\ IsBanner(disk[p][1])
            /\ \A i \in 2..Len(disk[p]) : ~IsBanner(disk[p][i])

(***************************************************************************)
(* C15: a ceiling assigned to ACTION_FORCE_HIGHEST after the module is     *)
(* loaded and before the first emit governs every emit made through the    *)
(* module's logger: the destinations affected are within the routing mask  *)
(* and the assigned ceiling.                                               *)
(***************************************************************************)
C15_AssignedCeilingGoverns ==
    (last_op = "emit" /\ LastCall.via = log_instance) =>
        Affected \subseteq (LastCall.action \cap module_force_highest)

(***************************************************************************)
(* C16: there is one Log object, get_instance returns it every time, and   *)
(* the file and the session are changed through it only.                   *)
(***************************************************************************)
C16_SingleInstance ==
    /\ Len(log_objs) = 1
    /\ \A i \in 1..Len(returned) : returned[i] = log_instance
    /\ last_op = "emit" => LastCall.via = log_instance

(***************************************************************************)
(* C17: a RAW emit that saves appends one block to the file: the stamped   *)
(* prefix line, the <<START RAW>> line, the message, the <<END RAW>> line  *)
(* and one line break; in sequential use every text in a log file is a     *)
(* banner or the whole record of one call, so an END follows every START   *)
(* before another record begins.                                           *)
(***************************************************************************)
RawBlock(c, n) ==
    FileStamp(n)
    \o build_prefix("RAW", IF c.func_name # "" THEN c.func_name ELSE "raw_log")
    \o "\n" \o "<<START RAW>>" \o "\n" \o c.message \o "\n" \o "<<END RAW>>" \o "\n"

RecordOf(c, n) == IF c.level = "RAW" THEN RawBlock(c, n) ELSE FileLine(c, n)

C17_RawBlockWhole ==
    /\ ( /\ last_op = "emit" /\ LastCall.level = "RAW" /\ "SAVE" \in LastEff
         /\ ~raised /\ stderr = pre.err ) =>
          \E n \in 0..clock :
              NewTexts = (IF pre.handler # None
                          THEN pre.objs[pre.handler].buf ELSE <<Banner(n)>>)
                         \o <<RawBlock(LastCall, n)>>
    /\ \A p \in DOMAIN disk : \A i \in 1..Len(disk[p]) :
          \/ IsBanner(disk[p][i])
          \/ \E j \in 1..Len(calls), n \in 0..MaxClock :
                disk[p][i] = RecordOf(calls[j], n)

C17_Witness ==
    /\ last_op = "emit"
    /\ Len(calls) = 2
    /\ calls[1].level = "RAW" /\ calls[2].level = "RAW"
    /\ stderr = <<>>
    /\ Len(CurrentFile) = 3
    /\ \E n \in 0..clock : CurrentFile[3] = RawBlock(LastCall, n)

(***************************************************************************)
(* C18: with several threads emitting, no two threads are inside the file  *)
(* append (_save_log: open-if-absent, write, flush) at the same time, and  *)
(* no thread writes to the console between the content and the line break  *)
(* of another thread's emit.                                               *)
(***************************************************************************)
InSaveLog(t) == pc[t] \in {"open", "banner", "write"}
InPrint(t) == pc[t] = "print_end"

C18_AppendsSerialized ==
    \A t, u \in Threads :
        t # u => /\ ~(InSaveLog(t) /\ InSaveLog(u))
                 /\ ~(InPrint(t) /\ InPrint(u))

(***************************************************************************)
(* C20: a payload that lacks login, password_hash or (for add_data) data,  *)
(* the key being absent or its value null, gets an error response with     *)
(* status "error"; no exception leaves the handler and data.json is not    *)
(* written.                                                                *)
(***************************************************************************)
Lacks(json_data, key) == key \notin DOMAIN json_data \/ json_data[key] = JNull

ReachedHandler ==
    /\ request # NoRequest
    /\ request.req.user_agent /\ request.req.content_type
    /\ request.req.body = "object"
    /\ "action" \in DOMAIN request.req.json_data
    /\ request.req.json_data["action"] \in {JStr("auth"), JStr("add_data")}

LacksRequiredField ==
    LET json_data == request.req.json_data
    IN \/ Lacks(json_data, "login")
       \/ Lacks(json_data, "password_hash")
       \/ json_data["action"] = JStr("add_data") /\ Lacks(json_data, "data")

C20_MissingFieldIsError ==
    (ReachedHandler /\ LacksRequiredField) =>
        /\ response.kind = "response"
        /\ response.status = "error"
        /\ data_json = request.data_before

(***************************************************************************)
(* C21: the prefix is indicator + fill + label + separator block with the  *)
(* whole label in it; the fill is empty when the label is at least         *)
(* targetWidth long, and max(0, targetWidth - len(label) - len(indicator)) *)
(* fill characters otherwise.                                              *)
(***************************************************************************)
FillCount ==
    IF Len(probe.func_name) >= EST_FUNCTION_LENGTH THEN 0
    ELSE IF EST_FUNCTION_LENGTH - IndicatorAndLabel > 0
         THEN EST_FUNCTION_LENGTH - IndicatorAndLabel ELSE 0

SeparatorBlock ==
    (IF SPACE_BETWEEN_CONTENT_SPACE_AND_CONTENT THEN " " ELSE "")
    \o Rep(CONTENT_SPACE_CHARACTER, CONTENT_SPACE)
    \o (IF SPACE_BETWEEN_CONTENT_SPACE_AND_CONTENT THEN " " ELSE "")

C21_LabelKeptWhole ==
    PrefixBuilt =>
        probe.out.text =
            level_indicator_map(probe.level)
            \o Rep(SHORTER_FUNCTION_FILL_CHARACTER, FillCount)
            \o probe.func_name
            \o SeparatorBlock

C21_Witness ==
    /\ PrefixBuilt
    /\ probe.level = "WARNING"
    /\ Len(probe.func_name) = MaxLabelLen
    /\ Len(probe.func_name) >= EST_FUNCTION_LENGTH
    /\ Len(probe.out.text) = IndicatorAndLabel + SeparatorBlockWidth

(***************************************************************************)
(* C22: the session buffer and every log file only grow: what they held    *)
(* before an operation is a prefix of what they hold after it, and the     *)
(* session snapshot is the same before and after anything but an emit      *)
(* (get_current_session reads the buffer and changes nothing).             *)
(***************************************************************************)
IsPrefix(a, b) == Len(a) <= Len(b) /\ SubSeq(b, 1, Len(a)) = a

C22_AppendOnly ==
    /\ IsPrefix(pre.session, current_session_data)
    /\ \A p \in DOMAIN pre.disk :
          p \in DOMAIN disk /\ IsPrefix(pre.disk[p], disk[p])
    /\ last_op # "emit" => get_current_session = Join(pre.session)

C22_Witness ==
    /\ last_op = "emit"
    /\ pre.session # <<>>
    /\ Len(current_session_data) = Len(pre.session) + 1
    /\ log_file_path \in DOMAIN pre.disk
    /\ pre.disk[log_file_path] # <<>>
    /\ pre.handler = None
    /\ Len(CurrentFile) = Len(pre.disk[log_file_path]) + 2

(***************************************************************************)
(* C23: no file handle is leaked: every file object that was opened and    *)
(* not closed is the one Log._log_file_handler refers to, and right after  *)
(* the shutdown hook has run every file object ever opened is closed.      *)
(***************************************************************************)
C23_NoHandleLeak ==
    /\ \A i \in 1..Len(file_objs) :
          file_objs[i].closed = 0 => i = log_file_handler
    /\ last_op = "cleanup" =>
          \A i \in 1..Len(file_objs) : file_objs[i].closed >= 1

(***************************************************************************)
(* C24: handle_add_data_request writes data.json only when the login and   *)
(* the password hash both match the stored credentials and                 *)
(* authenticate_credentials says so; a request whose authentication fails  *)
(* leaves data.json as it was and is answered with status "failed".        *)
(***************************************************************************)
AddDataAuthenticating ==
    /\ ReachedHandler
    /\ request.req.json_data["action"] = JStr("add_data")
    /\ ~Lacks(request.req.json_data, "login")
    /\ ~Lacks(request.req.json_data, "password_hash")

BothMatch ==
    /\ request.req.json_data["login"] = example_credentials.login
    /\ request.req.json_data["password_hash"] = example_credentials.password_hash

C24_PersistOnlyAuthenticated ==
    request # NoRequest =>
        /\ data_json # request.data_before =>
              AddDataAuthenticating /\ debug /\ BothMatch
        /\ (AddDataAuthenticating /\ ~(debug /\ BothMatch)) =>
              /\ data_json = request.data_before
              /\ response.kind = "response"
              /\ response.status = "failed"

C24_Witness ==
    /\ AddDataAuthenticating
    /\ debug
    /\ BothMatch
    /\ request.data_before = json_dump(JStr("old data"))
    /\ data_json = json_dump(JStr("new data"))
    /\ response.status = "success"

====
